---- MODULE Spec2Model ----
(***************************************************************************)
(* Model of train.py: the GutenbergPoetryDataset windowing, the            *)
(* warmup-then-cosine learning-rate schedule, and the epoch/batch loop of  *)
(* train() with its optimizer, LambdaLR scheduler and SummaryWriter.       *)
(*                                                                         *)
(* Units.  Learning rates given on the command line and the values         *)
(* returned by cosine_lr_schedule are integers in units of 1e-6 (MICRO).   *)
(* The learning rate held by the optimizer is the product of two such      *)
(* values (LambdaLR multiplies the base rate by the lambda), so it is kept *)
(* exactly, in units of 1e-12.  cos is computed in fixed point with        *)
(* COS_SCALE = 1e4.                                                        *)
(***************************************************************************)
EXTENDS Integers, Sequences, FiniteSets, TLC

VARIABLES
    pc,          \* position of the program
    argv,        \* the command line: requested --model-type
    args,        \* the parsed arguments (module-level global args)
    tokens,      \* tokenizer.encode("".join(corpus lines))
    data,        \* GutenbergPoetryDataset.data after __init__ (list of windows)
    labels,      \* GutenbergPoetryDataset.labels after __init__
    item,        \* last result of __getitem__
    len_train,   \* len(train_dataloader)
    len_val,     \* len(val_dataloader)
    max_steps,   \* len(train_dataloader) * args.epochs
    opt_lr,      \* opt.param_groups[0]["lr"], units of 1e-12
    last_epoch,  \* scheduler.last_epoch: number of scheduler steps taken
    last_lr,     \* scheduler.get_last_lr()[0], units of 1e-12
    grads,       \* global batch numbers whose backward pass is accumulated in .grad
    updates,     \* the optimizer updates applied so far to the parameters
    training,    \* model.training (model.train() / model.eval())
    epoch,       \* loop variable of the epoch loop
    step,        \* loop variable of the batch loop of the epoch
    val_step,    \* number of validation batches processed in this epoch
    loss,        \* loss of the last forward pass
    train_loss,  \* accumulated training loss of the epoch
    val_loss,    \* accumulated validation loss of the epoch
    writer,      \* scalars written to the SummaryWriter, in order
    writer_open, \* FALSE once writer.close() has run
    err,         \* the exception that ended the program, or "none"
    schedule     \* values of cosine_lr_schedule evaluated for steps 0, 1, ...

vars == <<pc, argv, args, tokens, data, labels, item, len_train, len_val,
          max_steps, opt_lr, last_epoch, last_lr, grads, updates, training,
          epoch, step, val_step, loss, train_loss, val_loss, writer,
          writer_open, err, schedule>>

(***************************************************************************)
(* Bounds of the model.                                                    *)
(***************************************************************************)
MaxTokens == 4      \* longest token sequence given to the dataset on its own
MaxCorpus == 6      \* longest token sequence of a whole program run
MaxTokenId == 2     \* token ids are 0..MaxTokenId
MaxSeqLen == 3      \* --seq-len ranges over 1..MaxSeqLen
MaxEpochs == 2      \* --epochs ranges over 0..MaxEpochs
MaxBatchSize == 2   \* --batch-size ranges over 1..MaxBatchSize
MaxWarmup == 3      \* --warmup-steps ranges over 0..MaxWarmup
MaxSteps == 6       \* max_steps of the stand-alone schedule evaluation

(***************************************************************************)
(* Fixed-point units.                                                      *)
(***************************************************************************)
MICRO == 1000000    \* 1.0 in learning-rate units
MIN_LR_CAP == 100   \* 1e-4 in learning-rate units
COS_SCALE == 10000  \* 1.0 in cos units
PI_FP == 31416      \* math.pi in cos units

LRs == {0, 300, 2000}            \* --lr: 0, 3e-4 and the default 2e-3
ModelTypes == {"transformer", "rnn"}
Choices == {"transformer"}       \* choices=["transformer"]

Max(a, b) == IF a >= b THEN a ELSE b
Min(a, b) == IF a <= b THEN a ELSE b
CeilDiv(a, b) == (a + b - 1) \div b

\* Python list slice xs[lo:hi] with 0 <= lo, 0-based, hi clipped to len(xs).
Slice(xs, lo, hi) ==
    LET h == Min(hi, Len(xs))
    IN  IF lo >= h THEN <<>> ELSE [k \in 1..(h - lo) |-> xs[lo + k]]

Zeros(n) == [k \in 1..n |-> 0]

\* list(range(0, n, stride)) as a sequence.
RangeStarts(n, stride) == [k \in 1..CeilDiv(n, stride) |-> (k - 1) * stride]

(***************************************************************************)
(* GutenbergPoetryDataset.__init__                                         *)
(***************************************************************************)
\* self.labels = self.data[1:] + [0]
ShiftLabels(toks) == Slice(toks, 1, Len(toks)) \o <<0>>

\* [xs[i : min(i + seq_len, len(xs))] for i in range(0, len(xs), seq_len)]
Chunk(xs, seq_len) ==
    LET starts == RangeStarts(Len(xs), seq_len)
    IN  [k \in 1..Len(starts) |->
            Slice(xs, starts[k], Min(starts[k] + seq_len, Len(xs)))]

\* The last window left as it is.
PadLastNone(ws, seq_len) == ws

\* Pad the last window with zeros up to seq_len; ws is non-empty.
PadLast(ws, seq_len) ==
    LET last == ws[Len(ws)]
    IN  IF Len(last) < seq_len
        THEN [k \in 1..Len(ws) |->
                IF k = Len(ws) THEN last \o Zeros(seq_len - Len(last)) ELSE ws[k]]
        ELSE ws

DatasetData(toks, seq_len) == PadLast(Chunk(toks, seq_len), seq_len)
DatasetLabels(toks, seq_len) == PadLast(Chunk(ShiftLabels(toks), seq_len), seq_len)

(***************************************************************************)
(* cosine_lr_schedule                                                      *)
(***************************************************************************)
\* One more term of the cosine series: term * x^2 / ((2k - 1) * 2k).
RECURSIVE CosSeries(_, _, _, _)
CosSeries(x2, term, k, sign) ==
    IF k > 6 \/ term = 0 THEN 0
    ELSE LET t == (term * x2) \div (COS_SCALE * (2 * k - 1) * (2 * k))
         IN  sign * t + CosSeries(x2, t, k + 1, 0 - sign)

\* cos(x) for 0 <= x <= pi/2, x and the result in cos units.
CosSmall(x) == COS_SCALE + CosSeries((x * x) \div COS_SCALE, COS_SCALE, 1, -1)

\* math.cos(math.pi * num / den) for num >= 0, den >= 1, in cos units:
\* the argument is folded into [0, pi/2] by the symmetries of cos.
CosPi(num, den) ==
    LET r == num % (2 * den)
        f == IF r > den THEN 2 * den - r ELSE r
    IN  IF 2 * f > den
        THEN 0 - CosSmall((PI_FP * (den - f)) \div den)
        ELSE CosSmall((PI_FP * f) \div den)

\* min_lr = min(args.lr / 5, 1e-4)
MinLr(lr) == Min(lr \div 5, MIN_LR_CAP)

\* The decay taken down to 0 instead of min_lr.
CosineMissingFloor(st, ms, lr, warmup) ==
    IF st < warmup
    THEN (st * lr) \div Max(1, warmup)
    ELSE (lr * (COS_SCALE + CosPi(st - warmup, Max(1, ms - warmup))))
            \div (2 * COS_SCALE)

\* cosine_lr_schedule(step, max_steps) with args.lr = lr and
\* args.warmup_steps = warmup; the result is in learning-rate units.
cosine_lr_schedule(st, ms, lr, warmup) ==
    IF st < warmup
    THEN (st * lr) \div Max(1, warmup)
    ELSE MinLr(lr)
         + ((lr - MinLr(lr))
            * (COS_SCALE + CosPi(st - warmup, Max(1, ms - warmup))))
           \div (2 * COS_SCALE)

(***************************************************************************)
(* Library contracts used by train()                                       *)
(***************************************************************************)
\* torch.utils.data.random_split(dataset, [r, 1 - r]) with r = ratio_q / 4:
\* each part gets floor(n * fraction), the remainder goes round-robin to the
\* parts in order, so a remainder of one goes to the training part.
SplitTrain(n, ratio_q) ==
    LET a == (n * ratio_q) \div 4
        b == (n * (4 - ratio_q)) \div 4
    IN  IF n - (a + b) >= 1 THEN a + 1 ELSE a

SplitVal(n, ratio_q) == n - SplitTrain(n, ratio_q)

\* len(DataLoader(part, batch_size=bs)) with drop_last=False.
LoaderLen(n, bs) == CeilDiv(n, bs)

\* LambdaLR: lr = base_lr * lr_lambda(last_epoch), in units of 1e-12.
LambdaLR(base_lr, k, ms, warmup) ==
    base_lr * cosine_lr_schedule(k, ms, base_lr, warmup)

\* Loss returned by model(X, y) after u parameter updates (loss units).
ModelLoss(u) == 1000 * Max(1, 8 - u)

Scalar(tag, value, idx) == [tag |-> tag, value |-> value, idx |-> idx]

NoArgs == [model_type |-> "unset", seq_len |-> 0, lr |-> 0, warmup_steps |-> 0,
           batch_size |-> 0, epochs |-> 0, train_ratio |-> 0]

\* All command lines of the model; train_ratio is in quarters (0.0 .. 1.0).
ArgSpace ==
    [model_type : ModelTypes, seq_len : 1..MaxSeqLen, lr : LRs,
     warmup_steps : 0..MaxWarmup, batch_size : 1..MaxBatchSize,
     epochs : 0..MaxEpochs, train_ratio : 0..4]

TokenSeqs(lo) == UNION {[1..n -> 0..MaxTokenId] : n \in lo..MaxTokens}

\* The state of everything train() creates, before it is created.
Untouched ==
    /\ data = <<>> /\ labels = <<>> /\ item = <<>>
    /\ len_train = 0 /\ len_val = 0
    /\ opt_lr = 0 /\ last_epoch = 0 /\ last_lr = 0
    /\ grads = <<>> /\ updates = <<>> /\ training = TRUE
    /\ epoch = 0 /\ step = 0 /\ val_step = 0
    /\ loss = 0 /\ train_loss = 0 /\ val_loss = 0
    /\ writer = <<>> /\ writer_open = FALSE /\ err = "none"
    /\ schedule = <<>>

trainVars == <<len_train, len_val, max_steps, opt_lr, last_epoch, last_lr,
               grads, updates, training, epoch, step, val_step, loss,
               train_loss, val_loss, writer, writer_open>>
dataVars == <<data, labels, item>>
inputVars == <<argv, args, tokens>>

Crash(e) == pc' = "crashed" /\ err' = e

(***************************************************************************)
(* parse_args and main                                                     *)
(***************************************************************************)
\* An unknown --model-type replaced by the default.
ParseArgsDefaulting ==
    /\ pc = "parse"
    /\ args' = [argv EXCEPT !.model_type = "transformer"]
    /\ pc' = "main"
    /\ UNCHANGED <<argv, tokens, err, schedule>>
    /\ UNCHANGED dataVars /\ UNCHANGED trainVars

\* parse_args(): argparse rejects a --model-type outside choices (SystemExit).
ParseArgs ==
    /\ pc = "parse"
    /\ IF argv.model_type \in Choices
       THEN args' = argv /\ pc' = "main" /\ err' = err
       ELSE args' = args /\ pc' = "exited" /\ err' = "SystemExit"
    /\ UNCHANGED <<argv, tokens, schedule>>
    /\ UNCHANGED dataVars /\ UNCHANGED trainVars

\* main(): build the model or raise ValueError, then enter train().
Main ==
    /\ pc = "main"
    /\ IF args.model_type = "transformer"
       THEN pc' = "train_entry" /\ err' = err
       ELSE Crash("ValueError")
    /\ UNCHANGED <<argv, args, tokens, schedule>>
    /\ UNCHANGED dataVars /\ UNCHANGED trainVars

(***************************************************************************)
(* GutenbergPoetryDataset                                                  *)
(***************************************************************************)
\* The labels taken to be the inputs (no shift by one).
DatasetInitNoShift ==
    /\ pc = "train_entry"
    /\ IF Len(tokens) = 0
       THEN Crash("IndexError") /\ UNCHANGED <<data, labels>>
       ELSE /\ data' = DatasetData(tokens, args.seq_len)
            /\ labels' = DatasetData(tokens, args.seq_len)
            /\ pc' = "dataset_ready" /\ err' = err
    /\ UNCHANGED <<argv, args, tokens, item, schedule>>
    /\ UNCHANGED trainVars

\* __init__: self.data[-1] raises IndexError when there is no token.
DatasetInit ==
    /\ pc = "train_entry"
    /\ IF Len(tokens) = 0
       THEN Crash("IndexError") /\ UNCHANGED <<data, labels>>
       ELSE /\ data' = DatasetData(tokens, args.seq_len)
            /\ labels' = DatasetLabels(tokens, args.seq_len)
            /\ pc' = "dataset_ready" /\ err' = err
    /\ UNCHANGED <<argv, args, tokens, item, schedule>>
    /\ UNCHANGED trainVars

\* __getitem__(idx) for 0 <= idx < len(self): the pair (data[idx], labels[idx]).
GetItem ==
    /\ pc = "dataset_ready"
    /\ \E idx \in 0..(Len(data) - 1) :
          item' = <<idx, data[idx + 1], labels[idx + 1]>>
    /\ UNCHANGED <<pc, argv, args, tokens, data, labels, err, schedule>>
    /\ UNCHANGED trainVars

(***************************************************************************)
(* train(): set-up (lines 63-77)                                           *)
(***************************************************************************)
\* random_split, the two DataLoaders, max_steps, the writer, AdamW and
\* LambdaLR.  DataLoader(shuffle=True) builds a RandomSampler, which raises
\* ValueError for an empty part (num_samples = 0).  LambdaLR's constructor
\* performs the initial step: last_epoch = 0 and lr = base_lr * lr_lambda(0).
TrainSetup ==
    /\ pc = "dataset_ready"
    /\ LET n == Len(data)
           nt == SplitTrain(n, args.train_ratio)
           nv == SplitVal(n, args.train_ratio)
           lt == LoaderLen(nt, args.batch_size)
           ms == lt * args.epochs
           lr0 == LambdaLR(args.lr, 0, ms, args.warmup_steps)
       IN  IF nt = 0 \/ nv = 0
           THEN Crash("ValueError") /\ UNCHANGED trainVars
           ELSE /\ len_train' = lt
                /\ len_val' = LoaderLen(nv, args.batch_size)
                /\ max_steps' = ms
                /\ writer_open' = TRUE
                /\ opt_lr' = lr0 /\ last_lr' = lr0 /\ last_epoch' = 0
                /\ pc' = "epoch_loop" /\ err' = err
                /\ UNCHANGED <<grads, updates, training, epoch, step,
                               val_step, loss, train_loss, val_loss, writer>>
    /\ UNCHANGED inputVars /\ UNCHANGED dataVars /\ UNCHANGED schedule

(***************************************************************************)
(* train(): the epoch loop (lines 79-121)                                  *)
(***************************************************************************)
\* for epoch in range(args.epochs): model.train(); train_loss = 0.0
EpochStart ==
    /\ pc = "epoch_loop"
    /\ epoch < args.epochs
    /\ training' = TRUE /\ train_loss' = 0 /\ step' = 0
    /\ pc' = "batch_loop"
    /\ UNCHANGED <<len_train, len_val, max_steps, opt_lr, last_epoch, last_lr,
                   grads, updates, epoch, val_step, loss, val_loss, writer,
                   writer_open, err, schedule>>
    /\ UNCHANGED inputVars /\ UNCHANGED dataVars

\* logits, loss = model(X, y) for the next training batch
Forward ==
    /\ pc = "batch_loop"
    /\ step < len_train
    /\ loss' = ModelLoss(Len(updates))
    /\ pc' = "backward"
    /\ UNCHANGED <<len_train, len_val, max_steps, opt_lr, last_epoch, last_lr,
                   grads, updates, training, epoch, step, val_step,
                   train_loss, val_loss, writer, writer_open, err, schedule>>
    /\ UNCHANGED inputVars /\ UNCHANGED dataVars

\* loss.backward(): the batch's gradient is added to .grad
Backward ==
    /\ pc = "backward"
    /\ grads' = Append(grads, epoch * len_train + step)
    /\ pc' = "opt_step"
    /\ UNCHANGED <<len_train, len_val, max_steps, opt_lr, last_epoch, last_lr,
                   updates, training, epoch, step, val_step, loss,
                   train_loss, val_loss, writer, writer_open, err, schedule>>
    /\ UNCHANGED inputVars /\ UNCHANGED dataVars

\* opt.step(): one update with the optimizer's current lr and current .grad
OptStep ==
    /\ pc = "opt_step"
    /\ updates' = Append(updates, [lr |-> opt_lr, grads |-> grads])
    /\ pc' = "sched_step"
    /\ UNCHANGED <<len_train, len_val, max_steps, opt_lr, last_epoch, last_lr,
                   grads, training, epoch, step, val_step, loss,
                   train_loss, val_loss, writer, writer_open, err, schedule>>
    /\ UNCHANGED inputVars /\ UNCHANGED dataVars

\* scheduler.step(): last_epoch += 1; lr = base_lr * lr_lambda(last_epoch)
SchedStep ==
    /\ pc = "sched_step"
    /\ last_epoch' = last_epoch + 1
    /\ LET lr1 == LambdaLR(args.lr, last_epoch + 1, max_steps, args.warmup_steps)
       IN  opt_lr' = lr1 /\ last_lr' = lr1
    /\ pc' = "zero_grad"
    /\ UNCHANGED <<len_train, len_val, max_steps, grads, updates, training,
                   epoch, step, val_step, loss, train_loss, val_loss, writer,
                   writer_open, err, schedule>>
    /\ UNCHANGED inputVars /\ UNCHANGED dataVars

\* The gradient left in place.
ZeroGradSkipped ==
    /\ pc = "zero_grad"
    /\ pc' = "log_step"
    /\ UNCHANGED <<len_train, len_val, max_steps, opt_lr, last_epoch, last_lr,
                   grads, updates, training, epoch, step, val_step, loss,
                   train_loss, val_loss, writer, writer_open, err, schedule>>
    /\ UNCHANGED inputVars /\ UNCHANGED dataVars

\* opt.zero_grad()
ZeroGrad ==
    /\ pc = "zero_grad"
    /\ grads' = <<>>
    /\ pc' = "log_step"
    /\ UNCHANGED <<len_train, len_val, max_steps, opt_lr, last_epoch, last_lr,
                   updates, training, epoch, step, val_step, loss,
                   train_loss, val_loss, writer, writer_open, err, schedule>>
    /\ UNCHANGED inputVars /\ UNCHANGED dataVars

\* curr_step taken to be the step within the epoch.
LogStepEpochLocal ==
    /\ pc = "log_step"
    /\ train_loss' = train_loss + loss
    /\ writer' = writer \o <<Scalar("Loss/train_step", loss, step),
                              Scalar("Learning_rate", last_lr, step)>>
    /\ step' = step + 1
    /\ pc' = "batch_loop"
    /\ UNCHANGED <<len_train, len_val, max_steps, opt_lr, last_epoch, last_lr,
                   grads, updates, training, epoch, val_step, loss, val_loss,
                   writer_open, err, schedule>>
    /\ UNCHANGED inputVars /\ UNCHANGED dataVars

\* train_loss += loss.item(); the two per-step scalars at curr_step
LogStep ==
    /\ pc = "log_step"
    /\ train_loss' = train_loss + loss
    /\ LET curr_step == epoch * len_train + step
       IN  writer' = writer \o <<Scalar("Loss/train_step", loss, curr_step),
                                 Scalar("Learning_rate", last_lr, curr_step)>>
    /\ step' = step + 1
    /\ pc' = "batch_loop"
    /\ UNCHANGED <<len_train, len_val, max_steps, opt_lr, last_epoch, last_lr,
                   grads, updates, training, epoch, val_step, loss, val_loss,
                   writer_open, err, schedule>>
    /\ UNCHANGED inputVars /\ UNCHANGED dataVars

\* avg_train_loss = train_loss / len(train_dataloader); Loss/train_epoch
\* (the division raises for an empty loader, which TrainSetup rules out)
EpochLog ==
    /\ pc = "batch_loop"
    /\ step >= len_train
    /\ IF len_train = 0
       THEN Crash("ZeroDivisionError") /\ writer' = writer
       ELSE /\ writer' = Append(writer,
                 Scalar("Loss/train_epoch", train_loss \div len_train, epoch))
            /\ pc' = "val_start" /\ err' = err
    /\ UNCHANGED <<len_train, len_val, max_steps, opt_lr, last_epoch, last_lr,
                   grads, updates, training, epoch, step, val_step, loss,
                   train_loss, val_loss, writer_open, schedule>>
    /\ UNCHANGED inputVars /\ UNCHANGED dataVars

\* model.eval(); val_loss = 0.0; with torch.no_grad():
ValStart ==
    /\ pc = "val_start"
    /\ training' = FALSE /\ val_loss' = 0 /\ val_step' = 0
    /\ pc' = "val_loop"
    /\ UNCHANGED <<len_train, len_val, max_steps, opt_lr, last_epoch, last_lr,
                   grads, updates, epoch, step, loss, train_loss, writer,
                   writer_open, err, schedule>>
    /\ UNCHANGED inputVars /\ UNCHANGED dataVars

\* A validation batch that also updates the parameters.
ValBatchTraining ==
    /\ pc = "val_loop"
    /\ val_step < len_val
    /\ loss' = ModelLoss(Len(updates))
    /\ val_loss' = val_loss + loss'
    /\ val_step' = val_step + 1
    /\ updates' = Append(updates, [lr |-> opt_lr, grads |-> grads])
    /\ UNCHANGED <<pc, len_train, len_val, max_steps, opt_lr, last_epoch,
                   last_lr, grads, training, epoch, step, train_loss,
                   writer, writer_open, err, schedule>>
    /\ UNCHANGED inputVars /\ UNCHANGED dataVars

\* _, loss = model(X, y); val_loss += loss   (no gradient is recorded)
ValBatch ==
    /\ pc = "val_loop"
    /\ val_step < len_val
    /\ loss' = ModelLoss(Len(updates))
    /\ val_loss' = val_loss + loss'
    /\ val_step' = val_step + 1
    /\ UNCHANGED <<pc, len_train, len_val, max_steps, opt_lr, last_epoch,
                   last_lr, grads, updates, training, epoch, step, train_loss,
                   writer, writer_open, err, schedule>>
    /\ UNCHANGED inputVars /\ UNCHANGED dataVars

\* The epoch advanced without the Loss/validation scalar.
ValLogSkipped ==
    /\ pc = "val_loop"
    /\ val_step >= len_val
    /\ epoch' = epoch + 1
    /\ pc' = "epoch_loop"
    /\ UNCHANGED <<len_train, len_val, max_steps, opt_lr, last_epoch, last_lr,
                   grads, updates, training, step, val_step, loss,
                   train_loss, val_loss, writer, writer_open, err, schedule>>
    /\ UNCHANGED inputVars /\ UNCHANGED dataVars

\* avg_val_loss = val_loss / len(val_dataloader); Loss/validation; next epoch
ValLog ==
    /\ pc = "val_loop"
    /\ val_step >= len_val
    /\ IF len_val = 0
       THEN Crash("ZeroDivisionError") /\ UNCHANGED <<writer, epoch>>
       ELSE /\ writer' = Append(writer,
                 Scalar("Loss/validation", val_loss \div len_val, epoch))
            /\ epoch' = epoch + 1
            /\ pc' = "epoch_loop" /\ err' = err
    /\ UNCHANGED <<len_train, len_val, max_steps, opt_lr, last_epoch, last_lr,
                   grads, updates, training, step, val_step, loss,
                   train_loss, val_loss, writer_open, schedule>>
    /\ UNCHANGED inputVars /\ UNCHANGED dataVars

\* writer.close() after the last epoch
Close ==
    /\ pc = "epoch_loop"
    /\ epoch >= args.epochs
    /\ writer_open' = FALSE
    /\ pc' = "done"
    /\ UNCHANGED <<len_train, len_val, max_steps, opt_lr, last_epoch, last_lr,
                   grads, updates, training, epoch, step, val_step, loss,
                   train_loss, val_loss, writer, err, schedule>>
    /\ UNCHANGED inputVars /\ UNCHANGED dataVars

(***************************************************************************)
(* The program: python train.py <argv> on a corpus of Len(tokens) tokens   *)
(***************************************************************************)
\* train() never reads the token values, only how many there are.
CorpusOfLen(n) == [k \in 1..n |-> k % (MaxTokenId + 1)]

Init ==
    /\ pc = "parse"
    /\ argv \in ArgSpace
    /\ args = NoArgs
    /\ tokens \in {CorpusOfLen(n) : n \in 1..MaxCorpus}
    /\ max_steps = 0
    /\ Untouched

Next ==
    \/ ParseArgs \/ Main \/ DatasetInit \/ TrainSetup
    \/ EpochStart \/ Forward \/ Backward \/ OptStep \/ SchedStep \/ ZeroGrad
    \/ LogStep \/ EpochLog \/ ValStart \/ ValBatch \/ ValLog \/ Close

Spec == Init /\ [][Next]_vars

(***************************************************************************)
(* The dataset on its own: every token sequence and window length          *)
(***************************************************************************)
InitData ==
    /\ pc = "train_entry"
    /\ argv \in {[NoArgs EXCEPT !.model_type = "transformer", !.seq_len = sl]
                   : sl \in 1..MaxSeqLen}
    /\ args = argv
    /\ tokens \in TokenSeqs(0)
    /\ max_steps = 0
    /\ Untouched

NextData == DatasetInit \/ GetItem

SpecData == InitData /\ [][NextData]_vars

(***************************************************************************)
(* The schedule on its own: cosine_lr_schedule(step, max_steps) for        *)
(* step = 0, 1, ..., max_steps                                             *)
(***************************************************************************)
InitSchedule ==
    /\ pc = "schedule"
    /\ argv \in {[NoArgs EXCEPT !.model_type = "transformer", !.lr = lr,
                                 !.warmup_steps = w]
                   : lr \in LRs, w \in 0..MaxWarmup}
    /\ args = argv
    /\ tokens = <<>>
    /\ max_steps \in 0..MaxSteps
    /\ Untouched

EvalSchedule ==
    /\ pc = "schedule"
    /\ Len(schedule) <= max_steps
    /\ schedule' = Append(schedule,
          cosine_lr_schedule(Len(schedule), max_steps, args.lr, args.warmup_steps))
    /\ UNCHANGED <<pc, err>>
    /\ UNCHANGED inputVars /\ UNCHANGED dataVars /\ UNCHANGED trainVars

NextSchedule == EvalSchedule

SpecSchedule == InitSchedule /\ [][NextSchedule]_vars

(***************************************************************************)
(* Properties                                                              *)
(***************************************************************************)
\* Concatenation of the first k windows of ws, and of all of them.
RECURSIVE FlattenTo(_, _)
FlattenTo(ws, k) == IF k = 0 THEN <<>> ELSE FlattenTo(ws, k - 1) \o ws[k]

Flatten(ws) == FlattenTo(ws, Len(ws))

\* Token at 0-based flat position p of the token sequence, 0 past its end.
TokenAt(p) == IF p < Len(tokens) THEN tokens[p + 1] ELSE 0

\* C1: for N >= 1 tokens the dataset has ceil(N / seq_len) input windows of
\* exactly seq_len entries each; their concatenation is the token sequence
\* followed only by zeros, fewer than seq_len of them (so only the final
\* window is padded, and nothing is padded when seq_len divides N).
C1_Windows ==
    (pc = "dataset_ready" /\ Len(tokens) >= 1) =>
        LET n == Len(tokens)
            sl == args.seq_len
            w == Len(data)
        IN  /\ w * sl >= n /\ (w - 1) * sl < n
            /\ \A i \in 1..w : Len(data[i]) = sl
            /\ Flatten(data) = tokens \o Zeros(w * sl - n)
            /\ \A i \in 1..(w - 1) : data[i] = Slice(tokens, (i - 1) * sl, i * sl)
            /\ (n % sl = 0 => Flatten(data) = tokens)

C1_Witness ==
    /\ pc = "dataset_ready"
    /\ Len(data) >= 2
    /\ Len(tokens) % args.seq_len # 0
    /\ data[Len(data)][args.seq_len] = 0
    /\ \E k \in 1..Len(tokens) : tokens[k] # 0

\* C10: the label at window i, position j is the token at flat position
\* i * seq_len + j + 1, or 0 at or past the end of the sequence; the label of
\* the last position of window i is the first token of window i + 1; there
\* are as many label windows as input windows, each of length seq_len; and
\* __getitem__(idx) returns the input window and the label window of idx.
C10_Labels ==
    (pc = "dataset_ready" /\ Len(tokens) >= 1) =>
        LET sl == args.seq_len
        IN  /\ Len(labels) = Len(data)
            /\ \A i \in 1..Len(labels) :
                  /\ Len(labels[i]) = sl
                  /\ \A j \in 1..sl :
                        labels[i][j] = TokenAt((i - 1) * sl + (j - 1) + 1)
            /\ \A i \in 1..(Len(data) - 1) : labels[i][sl] = data[i + 1][1]
            /\ item # <<>> =>
                  /\ item[2] = data[item[1] + 1]
                  /\ \A j \in 1..sl :
                        item[3][j] = TokenAt(item[1] * sl + (j - 1) + 1)

C10_Witness ==
    /\ pc = "dataset_ready"
    /\ item # <<>>
    /\ item[1] = 0
    /\ Len(data) >= 2
    /\ item[3][args.seq_len] # 0
    /\ item[3] # item[2]

\* Value of the schedule at step s, once evaluated.
ScheduleAt(s) == schedule[s + 1]

ScheduleComplete == pc = "schedule" /\ Len(schedule) = max_steps + 1

\* The parts of C2 that do not concern step 0.
ScheduleShape ==
    LET w == args.warmup_steps
    IN  /\ \A s \in 0..(w - 1) : ScheduleAt(s) <= ScheduleAt(s + 1)
        /\ ScheduleAt(w) = args.lr
        /\ \A s \in w..(max_steps - 1) : ScheduleAt(s) >= ScheduleAt(s + 1)
        /\ \A s \in w..max_steps : ScheduleAt(s) >= Min(args.lr \div 5, MIN_LR_CAP)
        /\ ScheduleAt(max_steps) = Min(args.lr \div 5, MIN_LR_CAP)

\* C2 (as amended): for args.lr >= 0 and 0 <= warmup_steps < max_steps the
\* schedule is non-decreasing on 0..warmup_steps and reaches args.lr at
\* warmup_steps; it is 0 at step 0 when warmup_steps >= 1 and args.lr at
\* step 0 when warmup_steps = 0; it is non-increasing on
\* warmup_steps..max_steps, never below min_lr = min(args.lr / 5, 1e-4), and
\* equal to min_lr at max_steps.
C2_Schedule ==
    (ScheduleComplete /\ args.warmup_steps < max_steps) =>
        /\ ScheduleShape
        /\ ScheduleAt(0) = IF args.warmup_steps >= 1 THEN 0 ELSE args.lr

C2_Witness ==
    /\ ScheduleComplete
    /\ args.warmup_steps >= 2
    /\ max_steps >= args.warmup_steps + 3
    /\ args.lr = 2000
    /\ ScheduleAt(max_steps) = MIN_LR_CAP
    /\ ScheduleAt(args.warmup_steps + 1) < args.lr
    /\ ScheduleAt(args.warmup_steps + 1) > ScheduleAt(args.warmup_steps + 2)

\* C2 as stated: the same, with the value 0 at step 0 for every
\* 0 <= warmup_steps < max_steps.
C2_Original ==
    (ScheduleComplete /\ args.warmup_steps < max_steps) =>
        /\ ScheduleShape
        /\ ScheduleAt(0) = 0

\* The scalars written with a tag, in the order written.
Logged(tag) == SelectSeq(writer, LAMBDA r : r.tag = tag)

\* How many scalars were written with a tag at an index.
Count(tag, idx) ==
    Cardinality({i \in 1..Len(writer) : writer[i].tag = tag /\ writer[i].idx = idx})

InBatch == pc \in {"backward", "opt_step", "sched_step", "zero_grad", "log_step"}
InValidation == pc \in {"val_start", "val_loop"}

\* C3: the learning rate applied by the k-th optimizer update (k from 0)
\* is cosine_lr_schedule(k, max_steps); it is --lr at k = warmup_steps and
\* never more than --lr.
C3_AppliedLrIsSchedule ==
    \A k \in 1..Len(updates) :
        /\ updates[k].lr =
              MICRO * cosine_lr_schedule(k - 1, max_steps, args.lr, args.warmup_steps)
        /\ updates[k].lr <= MICRO * args.lr
        /\ (k - 1 = args.warmup_steps => updates[k].lr = MICRO * args.lr)

\* C4: when the requested model type is not "transformer" the program ends
\* with a fatal error before train() is entered: no dataset, no optimizer
\* step, no scalar.
C4_UnsupportedModelType ==
    argv.model_type # "transformer" =>
        /\ pc \in {"parse", "exited", "crashed"}
        /\ (pc # "parse" => err # "none")
        /\ data = <<>> /\ labels = <<>>
        /\ updates = <<>> /\ last_epoch = 0
        /\ writer = <<>> /\ ~writer_open

C4_Witness ==
    /\ argv.model_type = "rnn"
    /\ pc = "exited"
    /\ err = "SystemExit"

\* C5: each batch is processed as forward, backward, optimizer step,
\* scheduler step, logging: the k-th update (k from 0) uses the gradient of
\* batch k alone (its backward pass came first and the gradient of the batch
\* before was zeroed), the scheduler steps after the update of the same
\* batch, and each batch causes exactly one update and one scheduler step.
C5_BatchOrder ==
    LET b == Len(Logged("Learning_rate"))
    IN  /\ \A k \in 1..Len(updates) : updates[k].grads = <<k - 1>>
        /\ last_epoch <= Len(updates) /\ Len(updates) <= last_epoch + 1
        /\ (Len(updates) = last_epoch + 1 <=> pc = "sched_step")
        /\ (pc = "backward" => grads = <<>> /\ Len(updates) = b)
        /\ (pc = "opt_step" => grads = <<b>> /\ Len(updates) = b)
        /\ (pc = "zero_grad" => grads = <<b>> /\ last_epoch = b + 1)
        /\ (pc = "log_step" => grads = <<>> /\ last_epoch = b + 1)
        /\ (~InBatch => grads = <<>> /\ Len(updates) = b /\ last_epoch = b)
        /\ (InBatch => b = epoch * len_train + step)

C5_Witness ==
    /\ pc = "opt_step"
    /\ Len(updates) >= 2
    /\ grads = <<Len(updates)>>
    /\ epoch >= 1

\* C6: for every epoch e one Loss/train_epoch and one Loss/validation scalar
\* are written at index e; validation of epoch e runs after all training
\* batches of epoch e and is logged before the first training batch of
\* epoch e + 1; the writer is closed only after the last validation scalar.
C6_EpochBookkeeping ==
    /\ \A e \in 0..(epoch - 1) :
          Count("Loss/train_epoch", e) = 1 /\ Count("Loss/validation", e) = 1
    /\ \A i \in 1..Len(writer) :
          writer[i].tag \in {"Loss/train_epoch", "Loss/validation"} =>
              writer[i].idx \in 0..(args.epochs - 1) /\ writer[i].idx <= epoch
    /\ Count("Loss/validation", epoch) = 0
    /\ Count("Loss/train_epoch", epoch) = IF InValidation THEN 1 ELSE 0
    /\ (InValidation =>
          /\ step = len_train
          /\ Len(Logged("Learning_rate")) = (epoch + 1) * len_train)
    /\ (InBatch => Len(Logged("Learning_rate")) \in
                      (epoch * len_train)..((epoch + 1) * len_train - 1))
    /\ (pc = "done" => epoch = args.epochs)
    /\ (writer # <<>> /\ pc # "done" => writer_open)
    /\ (pc = "done" <=> (pc \notin {"parse", "main", "train_entry", "dataset_ready",
                                     "exited", "crashed"} /\ ~writer_open))

C6_Witness ==
    /\ pc = "done"
    /\ args.epochs = 2
    /\ len_train >= 2 /\ len_val >= 2
    /\ Count("Loss/validation", 1) = 1
    /\ Count("Loss/train_epoch", 0) = 1

\* C7: the Learning_rate scalar logged at global step s is the learning
\* rate the optimizer used for update s.
C7_LoggedLrIsUsedLr ==
    \A i \in 1..Len(writer) :
        writer[i].tag = "Learning_rate" =>
            /\ writer[i].idx + 1 <= Len(updates)
            /\ writer[i].value = updates[writer[i].idx + 1].lr

\* C8: the number of scheduler steps is the number of training batches
\* processed (one more while a batch's logging is pending) and never more
\* than max_steps; the logged curr_step values are 0, 1, 2, ... in order,
\* each once; every cosine-phase evaluation has progress in [0, 1]; a run
\* that completes made exactly max_steps updates and logged 0..max_steps-1.
C8_StepCount ==
    LET lrs == Logged("Learning_rate")
        steps == Logged("Loss/train_step")
    IN  /\ last_epoch <= max_steps
        /\ Len(lrs) <= last_epoch /\ last_epoch <= Len(lrs) + 1
        /\ (pc \notin {"zero_grad", "log_step"} => last_epoch = Len(lrs))
        /\ \A i \in 1..Len(lrs) : lrs[i].idx = i - 1
        /\ Len(steps) = Len(lrs)
        /\ \A i \in 1..Len(steps) : steps[i].idx = i - 1
        /\ \A k \in args.warmup_steps..last_epoch :
              /\ 0 <= k - args.warmup_steps
              /\ k - args.warmup_steps <= Max(1, max_steps - args.warmup_steps)
        /\ (pc = "done" =>
              /\ max_steps = len_train * args.epochs
              /\ Len(updates) = max_steps
              /\ last_epoch = max_steps
              /\ Len(lrs) = max_steps)

C8_Witness ==
    /\ pc = "done"
    /\ args.epochs >= 2
    /\ len_train >= 2
    /\ args.warmup_steps < max_steps
    /\ Len(Logged("Learning_rate")) = max_steps

\* C9: the validation pass changes no training state: from its start to its
\* end no optimizer step and no scheduler step is taken, and the parameters,
\* the scheduler's step count, the learning rate and train_loss stay as
\* they are.
C9_ValidationFrame ==
    [][InValidation =>
          UNCHANGED <<updates, grads, last_epoch, opt_lr, last_lr, train_loss>>]_vars

C9_Witness ==
    /\ pc = "val_loop"
    /\ val_step >= 2
    /\ ~training
    /\ Len(updates) >= 2
    /\ train_loss > 0
    /\ opt_lr > 0

====
